---- MODULE Spec2Model ----
(***************************************************************************)
(* crossmarks (src/main.rs): a bookmarks file, one "alias path" line per   *)
(* bookmark, is parsed line by line by Bookmark::try_from and written out  *)
(* under up to three templates by main.                                    *)
(*                                                                         *)
(* A line of text is a sequence of one-character strings.  Indexes are the *)
(* 0-based byte indexes of the Rust code; the alphabet is ASCII, so byte   *)
(* and character indexes coincide.                                         *)
(***************************************************************************)
EXTENDS Integers, Sequences, FiniteSets, TLC

VARIABLES
    entry,      \* which entry point runs: "try_from" (the parser alone) or "main"
    value,      \* the line last handed to Bookmark::try_from
    parsed,     \* what Bookmark::try_from returned for value (NotParsed before the call)
    args,       \* Config.outputs: which of the three Option<String> are Some
    file,       \* the lines of the input file, in file order
    pc,         \* main's position: "open", "lines", "lf", "zsh", "cd", "exit"
                \* ("none" when main does not run)
    pos,        \* number of lines the lines() iterator has consumed
    bms,        \* the Vec<Bookmark> collected so far
    io_errors,  \* indexes of the lines whose read returned Err
    status,     \* "running", "ok", "open_error", "write_error", "invalid_format", "panic"
    err,        \* the line carried by the InvalidFormat error main returned
    out         \* per target, the content fs::write stored (NotWritten before)

vars == <<entry, value, parsed, args, file, pc, pos, bms, io_errors, status, err, out>>

(***************************************************************************)
(* Bounds                                                                  *)
(***************************************************************************)
MaxLineLen == 5
MaxLines == 3

Chars == {"a", "b", " ", "\t", "#", "\""}

Lines == UNION {[1..n -> Chars] : n \in 0..MaxLineLen}

\* The lines an input file is made of: two bookmarks, a comment, an indented
\* comment, a line without a space, an empty line and a line with two
\* adjacent spaces.
FileLines ==
    { <<"a", " ", "b">>, <<"b", " ", "a">>, <<"#", "a">>, <<"\t", "#">>,
      <<"a">>, <<>>, <<"a", " ", " ", "b">> }

Files == UNION {[1..n -> FileLines] : n \in 0..MaxLines}

(***************************************************************************)
(* str primitives used by the parser                                       *)
(***************************************************************************)
NoneIdx == -1

\* char::is_whitespace, on the alphabet
is_whitespace(c) == c \in {" ", "\t"}

\* trim_start left out: the line is tested as it is
TrimNothing(s) == s

\* str::trim_start
RECURSIVE trim_start(_)
trim_start(s) ==
    IF s # <<>> /\ is_whitespace(Head(s)) THEN trim_start(Tail(s)) ELSE s

\* str::starts_with(char)
starts_with(s, c) == s # <<>> /\ Head(s) = c

\* str::split(c).count(): one more than the number of occurrences of c
split_count(s, c) == Cardinality({i \in 1..Len(s) : s[i] = c}) + 1

\* str::find(char): Some(0-based index of the first occurrence) or None
find(s, c) ==
    IF \E i \in 1..Len(s) : s[i] = c
    THEN (CHOOSE i \in 1..Len(s) : s[i] = c /\ \A j \in 1..(i - 1) : s[j] # c) - 1
    ELSE NoneIdx

\* Option::unwrap_or
unwrap_or(opt, default) == IF opt = NoneIdx THEN default ELSE opt

\* s[from..to] is in bounds (otherwise the slice expression panics)
slice_ok(s, from, to) == from <= to /\ to <= Len(s)

\* s[from..to], 0-based and half-open
slice(s, from, to) == SubSeq(s, from + 1, to)

\* str::is_empty
is_empty(s) == s = <<>>

(***************************************************************************)
(* Bookmark and BookmarkError                                              *)
(***************************************************************************)
NotParsed == [kind |-> "NotParsed"]

CommentLine(line) == [kind |-> "CommentLine", line |-> line]

InvalidFormat(line) == [kind |-> "InvalidFormat", line |-> line]

\* the thread panicked inside try_from (a slice with begin > end)
Panic(line) == [kind |-> "Panic", line |-> line]

Bookmark(input, first, second) ==
    [kind |-> "Ok", input |-> input,
     first_space_idx |-> first, second_space_idx |-> second]

first_space_idx_of(v) == find(v, " ")

second_space_idx_of(v) ==
    unwrap_or(find(slice(v, first_space_idx_of(v) + 1, Len(v)), " "), Len(v))

\* impl TryFrom<String> for Bookmark
try_from(v) ==
    IF starts_with(trim_start(v), "#") THEN CommentLine(v)
    ELSE IF split_count(v, " ") < 2 THEN InvalidFormat(v)
    ELSE LET first == first_space_idx_of(v)
             second == second_space_idx_of(v)
         IN IF is_empty(slice(v, 0, first)) THEN InvalidFormat(v)
            ELSE IF ~slice_ok(v, first + 1, second) THEN Panic(v)
            ELSE IF is_empty(slice(v, first + 1, second)) THEN InvalidFormat(v)
            ELSE Bookmark(v, first, second)

\* path() sliced from the separator instead of from the byte after it
PathFromSeparator(b) == slice(b.input, b.first_space_idx, b.second_space_idx)

\* Bookmark::path
path(b) == slice(b.input, b.first_space_idx + 1, b.second_space_idx)

\* Bookmark::alias
alias(b) == slice(b.input, 0, b.first_space_idx)

(***************************************************************************)
(* main, Bookmarks::try_from(File) and write_formatted!                    *)
(***************************************************************************)
Targets == {"lf", "zsh", "cd"}

NotWritten == <<"NotWritten">>

\* #[group(required = true, multiple = true)]: at least one output is given
ArgSets == {a \in [Targets -> BOOLEAN] : \E t \in Targets : a[t]}

\* format!(concat!($fmt, "\n"), bookmark.alias(), bookmark.path())
format(t, a, p) ==
    CASE t = "lf" ->
           <<"m", "a", "p", " ", "g">> \o a \o <<" ", "c", "d", " ">> \o p \o <<"\n">>
      [] t = "zsh" ->
           <<"h", "a", "s", "h", " ", "-", "d", " ">> \o a \o <<"=">> \o p \o <<"\n">>
      [] t = "cd" ->
           <<"a", "l", "i", "a", "s", " ", "c", "d">> \o a \o <<"=", "\"">> \o p
               \o <<"\"", "\n">>

\* write_formatted!: the String handed to fs::write
RECURSIVE write_formatted(_, _)
write_formatted(bookmarks, t) ==
    IF bookmarks = <<>> THEN <<>>
    ELSE format(t, alias(Head(bookmarks)), path(Head(bookmarks)))
             \o write_formatted(Tail(bookmarks), t)

\* the statement of main that follows the if-let of target t
after(t) == CASE t = "lf" -> "zsh" [] t = "zsh" -> "cd" [] t = "cd" -> "exit"

\* main returns Ok(()) once the last if-let is passed
status_after(t) == IF after(t) = "exit" THEN "ok" ELSE "running"

UnitInit ==
    /\ entry = "try_from"
    /\ value \in Lines
    /\ parsed = NotParsed
    /\ args = [t \in Targets |-> FALSE]
    /\ file = <<>>
    /\ pc = "none"
    /\ pos = 0
    /\ bms = <<>>
    /\ io_errors = {}
    /\ status = "none"
    /\ err = <<>>
    /\ out = [t \in Targets |-> NotWritten]

MainInit ==
    /\ entry = "main"
    /\ value = <<>>
    /\ parsed = NotParsed
    /\ args \in ArgSets
    /\ file \in Files
    /\ pc = "open"
    /\ pos = 0
    /\ bms = <<>>
    /\ io_errors = {}
    /\ status = "running"
    /\ err = <<>>
    /\ out = [t \in Targets |-> NotWritten]

Init == UnitInit \/ MainInit

\* Bookmark::try_from called on one line
TryFromCall ==
    /\ entry = "try_from"
    /\ parsed = NotParsed
    /\ parsed' = try_from(value)
    /\ UNCHANGED <<entry, value, args, file, pc, pos, bms, io_errors, status, err, out>>

\* fs::File::open(args.bookmarks_file)? succeeds
OpenOk ==
    /\ entry = "main" /\ pc = "open"
    /\ pc' = "lines"
    /\ UNCHANGED <<entry, value, parsed, args, file, pos, bms, io_errors, status, err, out>>

\* fs::File::open(args.bookmarks_file)? returns the error
OpenFails ==
    /\ entry = "main" /\ pc = "open"
    /\ pc' = "exit"
    /\ status' = "open_error"
    /\ UNCHANGED <<entry, value, parsed, args, file, pos, bms, io_errors, err, out>>

HasNextLine == entry = "main" /\ pc = "lines" /\ pos < Len(file)

\* lines() yields Err: v.map_or(None, ..) gives None and filter_map drops it
LineReadError ==
    /\ HasNextLine
    /\ pos' = pos + 1
    /\ io_errors' = io_errors \cup {pos + 1}
    /\ UNCHANGED <<entry, value, parsed, args, file, pc, bms, status, err, out>>

\* lines() yields Ok(v) and v.try_into() is Ok: Some(Ok(v)), pushed by collect
LineBookmark ==
    /\ HasNextLine
    /\ try_from(file[pos + 1]).kind = "Ok"
    /\ value' = file[pos + 1]
    /\ parsed' = try_from(file[pos + 1])
    /\ pos' = pos + 1
    /\ bms' = Append(bms, try_from(file[pos + 1]))
    /\ UNCHANGED <<entry, args, file, pc, io_errors, status, err, out>>

\* v.try_into() is Err(CommentLine(_)): None, dropped by filter_map
LineComment ==
    /\ HasNextLine
    /\ try_from(file[pos + 1]).kind = "CommentLine"
    /\ value' = file[pos + 1]
    /\ parsed' = try_from(file[pos + 1])
    /\ pos' = pos + 1
    /\ UNCHANGED <<entry, args, file, pc, bms, io_errors, status, err, out>>

\* v.try_into() is Err(InvalidFormat(line)): collect stops, `?` returns it
\* from Bookmarks::try_from and again from main
LineInvalid ==
    /\ HasNextLine
    /\ try_from(file[pos + 1]).kind = "InvalidFormat"
    /\ value' = file[pos + 1]
    /\ parsed' = try_from(file[pos + 1])
    /\ pos' = pos + 1
    /\ bms' = <<>>
    /\ pc' = "exit"
    /\ status' = "invalid_format"
    /\ err' = try_from(file[pos + 1]).line
    /\ UNCHANGED <<entry, args, file, io_errors, out>>

\* v.try_into() panics: the process unwinds out of main
LinePanic ==
    /\ HasNextLine
    /\ try_from(file[pos + 1]).kind = "Panic"
    /\ value' = file[pos + 1]
    /\ parsed' = try_from(file[pos + 1])
    /\ pos' = pos + 1
    /\ bms' = <<>>
    /\ pc' = "exit"
    /\ status' = "panic"
    /\ UNCHANGED <<entry, args, file, io_errors, err, out>>

\* lines() is exhausted: collect returns Ok(vec), main goes on to the outputs
EndOfInput ==
    /\ entry = "main" /\ pc = "lines" /\ pos = Len(file)
    /\ pc' = "lf"
    /\ UNCHANGED <<entry, value, parsed, args, file, pos, bms, io_errors, status, err, out>>

\* if let Some(output_path) = .. is None for target pc
SkipTarget ==
    /\ entry = "main" /\ pc \in Targets
    /\ ~args[pc]
    /\ pc' = after(pc)
    /\ status' = status_after(pc)
    /\ UNCHANGED <<entry, value, parsed, args, file, pos, bms, io_errors, err, out>>

\* write_formatted!(bookmarks, output_path, fmt)? succeeds
WriteTarget ==
    /\ entry = "main" /\ pc \in Targets
    /\ args[pc]
    /\ out' = [out EXCEPT ![pc] = write_formatted(bms, pc)]
    /\ pc' = after(pc)
    /\ status' = status_after(pc)
    /\ UNCHANGED <<entry, value, parsed, args, file, pos, bms, io_errors, err>>

\* write_formatted!(..)? returns the error of fs::write
WriteFails ==
    /\ entry = "main" /\ pc \in Targets
    /\ args[pc]
    /\ pc' = "exit"
    /\ status' = "write_error"
    /\ UNCHANGED <<entry, value, parsed, args, file, pos, bms, io_errors, err, out>>

Next ==
    \/ TryFromCall
    \/ OpenOk
    \/ OpenFails
    \/ LineReadError
    \/ LineBookmark
    \/ LineComment
    \/ LineInvalid
    \/ LinePanic
    \/ EndOfInput
    \/ SkipTarget
    \/ WriteTarget
    \/ WriteFails

Spec == Init /\ [][Next]_vars

(***************************************************************************)
(* Vocabulary of the properties: the shapes of line the grammar speaks of  *)
(***************************************************************************)
NoWhitespace(s) == \A i \in 1..Len(s) : ~is_whitespace(s[i])

NoChar(s, c) == \A i \in 1..Len(s) : s[i] # c

IsToken(s) == s # <<>> /\ NoWhitespace(s)

\* an alias token that does not turn the line into a comment
IsAlias(s) == IsToken(s) /\ Head(s) # "#"

Before(v, k) == SubSeq(v, 1, k - 1)

After(v, k) == SubSeq(v, k + 1, Len(v))

\* the line begins with optional whitespace and then '#'
IsCommentText(v) ==
    \E i \in 1..Len(v) : v[i] = "#" /\ \A j \in 1..(i - 1) : is_whitespace(v[j])

\* the parse succeeded with alias a and path p
Yields(r, a, p) == r.kind = "Ok" /\ alias(r) = a /\ path(r) = p

\* v is alias + one space (at k) + path
AliasSpacePath(v, k) ==
    /\ v[k] = " "
    /\ IsToken(Before(v, k))
    /\ IsToken(After(v, k))
    /\ NoChar(After(v, k), "#")

\* v is alias + one space (at k) + '"' + content + '"' (at q) + anything
QuotedLine(v, k, q) ==
    /\ v[k] = " "
    /\ IsAlias(Before(v, k))
    /\ k + 2 < q
    /\ v[k + 1] = "\""
    /\ v[q] = "\""
    /\ NoChar(SubSeq(v, k + 2, q - 1), "\"")

\* v is alias + one space (at k) + unquoted path (ending at e) + rest, where
\* rest is empty or begins with whitespace or '#'
UnquotedLine(v, k, e) ==
    /\ v[k] = " "
    /\ IsAlias(Before(v, k))
    /\ k < e
    /\ v[k + 1] # "\""
    /\ IsToken(SubSeq(v, k + 1, e))
    /\ NoChar(SubSeq(v, k + 1, e), "#")
    /\ (e = Len(v) \/ is_whitespace(v[e + 1]) \/ v[e + 1] = "#")

\* v is alias + one space (at k) + '"' + text without a closing '"'
UnterminatedQuote(v, k) ==
    /\ v[k] = " "
    /\ IsAlias(Before(v, k))
    /\ k < Len(v)
    /\ v[k + 1] = "\""
    /\ NoChar(After(v, k + 1), "\"")

\* v is alias + n spaces (from k) + path
SpacesLine(v, k, n) ==
    /\ n >= 1
    /\ k + n <= Len(v)
    /\ \A i \in k..(k + n - 1) : v[i] = " "
    /\ IsAlias(Before(v, k))
    /\ IsToken(After(v, k + n - 1))
    /\ NoChar(After(v, k + n - 1), "#")

Idx(v) == 1..Len(v)

(***************************************************************************)
(* Properties of Bookmark::try_from                                        *)
(***************************************************************************)

\* C1 as stated: every line alias + one space + path, alias and path
\* non-empty and whitespace-free, path without '#', parses to exactly
\* (alias, path).
C1_AnyAlias ==
    parsed # NotParsed =>
        \A k \in Idx(value) :
            AliasSpacePath(value, k) =>
                Yields(parsed, Before(value, k), After(value, k))

\* C1 amended: every line alias + one space + path, alias and path
\* non-empty and whitespace-free, path without '#', alias not beginning
\* with '#', parses to exactly (alias, path).
C1_AliasNotHash ==
    parsed # NotParsed =>
        \A k \in Idx(value) :
            (AliasSpacePath(value, k) /\ Head(value) # "#") =>
                Yields(parsed, Before(value, k), After(value, k))

C1_Witness ==
    /\ parsed.kind = "Ok"
    /\ \E k \in Idx(value) :
           /\ AliasSpacePath(value, k) /\ Head(value) # "#"
           /\ Len(Before(value, k)) >= 2
           /\ Len(After(value, k)) >= 2

\* C3: try_from returns exactly one of CommentLine, InvalidFormat(original
\* line) or Ok(Bookmark) for every line, never crashing, and every Bookmark
\* has first_space_idx + 1 <= second_space_idx <= length of the line.
C3_TotalNoCrash ==
    parsed # NotParsed =>
        /\ parsed.kind \in {"CommentLine", "InvalidFormat", "Ok"}
        /\ parsed.kind = "InvalidFormat" => parsed.line = value
        /\ parsed.kind = "Ok" =>
               /\ parsed.first_space_idx + 1 <= parsed.second_space_idx
               /\ parsed.second_space_idx <= Len(parsed.input)

\* C4: every line alias + separator + '"' + content + '"' (+ anything),
\* content without '"', parses to alias and to path = content, the quotes
\* removed and embedded whitespace and '#' kept.
C4_QuotedPath ==
    parsed # NotParsed =>
        \A k \in Idx(value) : \A q \in Idx(value) :
            QuotedLine(value, k, q) =>
                Yields(parsed, Before(value, k), SubSeq(value, k + 2, q - 1))

\* C5: in alias + separator + path + rest, the unquoted path ends at the
\* first whitespace or '#' and the rest of the line is dropped.
C5_UnquotedPathStops ==
    parsed # NotParsed =>
        \A k \in Idx(value) : \A e \in Idx(value) :
            UnquotedLine(value, k, e) =>
                Yields(parsed, Before(value, k), SubSeq(value, k + 1, e))

\* C7: a line whose path token opens with '"' and never closes it is
\* InvalidFormat, never a Bookmark.
C7_UnterminatedQuote ==
    parsed # NotParsed =>
        \A k \in Idx(value) :
            UnterminatedQuote(value, k) => parsed = InvalidFormat(value)

\* C8: every line alias + n spaces + path, n >= 1, parses to (alias, path),
\* as it does for n = 1.
C8_SeparatorRun ==
    parsed # NotParsed =>
        \A k \in Idx(value) : \A n \in Idx(value) :
            SpacesLine(value, k, n) =>
                Yields(parsed, Before(value, k), After(value, k + n - 1))

\* C6: a line whose first non-whitespace character is '#' is classified
\* CommentLine; in main the step that consumes such a line adds no bookmark,
\* writes nothing and does not end the run.
C6_CommentSkipped ==
    [][
        /\ (entry = "try_from" /\ parsed' # parsed /\ IsCommentText(value)) =>
               parsed' = CommentLine(value)
        /\ (HasNextLine /\ pos' = pos + 1 /\ IsCommentText(file[pos + 1])) =>
               /\ io_errors' = io_errors => parsed' = CommentLine(file[pos + 1])
               /\ bms' = bms
               /\ out' = out
               /\ pc' = pc
               /\ status' = status
    ]_vars

C6_Witness ==
    /\ entry = "main"
    /\ status = "ok"
    /\ io_errors = {}
    /\ parsed = CommentLine(value)
    /\ is_whitespace(Head(value))
    /\ Len(bms) = 2
    /\ Len(file) = 3

(***************************************************************************)
(* Properties of main                                                      *)
(***************************************************************************)
NothingWritten == \A t \in Targets : out[t] = NotWritten

Malformed(line) == try_from(line).kind = "InvalidFormat"

HasMalformed(f) == \E i \in Idx(f) : Malformed(f[i])

FirstMalformed(f) ==
    f[CHOOSE i \in Idx(f) : Malformed(f[i]) /\ \A j \in 1..(i - 1) : ~Malformed(f[j])]

\* one bookmark per non-comment line, in file order
RECURSIVE OnePerLine(_)
OnePerLine(f) ==
    IF f = <<>> THEN <<>>
    ELSE (IF IsCommentText(Head(f)) THEN <<>> ELSE <<try_from(Head(f))>>)
             \o OnePerLine(Tail(f))

AllParse(f) == \A i \in Idx(f) : IsCommentText(f[i]) \/ try_from(f[i]).kind = "Ok"

\* C2: when a non-comment line of the input is malformed, no output is ever
\* written and the run, once the input is open, ends with the InvalidFormat
\* error that carries the first such line.
C2_FailFast ==
    (entry = "main" /\ HasMalformed(file)) =>
        /\ NothingWritten
        /\ pc \notin Targets
        /\ (pc = "exit" /\ status # "open_error") =>
               (status = "invalid_format" /\ err = FirstMalformed(file))

\* C9: once the read of a line has failed, the run has ended with an error at
\* that line: the line is not skipped, no later line is consumed and nothing
\* is written.
C9_ReadErrorAborts ==
    (entry = "main" /\ io_errors # {}) =>
        /\ pc = "exit"
        /\ status \notin {"running", "ok"}
        /\ \A i \in io_errors : pos <= i
        /\ NothingWritten

\* C10: when every non-comment line parses, a run that ends Ok(()) has
\* collected one bookmark per non-comment line, in file order, and every
\* requested output holds one templated line per bookmark in that order.
C10_OnePerLineInOrder ==
    (entry = "main" /\ pc = "exit" /\ status = "ok" /\ AllParse(file)) =>
        /\ bms = OnePerLine(file)
        /\ \A t \in Targets :
               args[t] => out[t] = write_formatted(OnePerLine(file), t)

====
